---- MODULE Spec2Model ----
(***************************************************************************)
(* A model of maskrcnn_benchmark/engine/trainer.py: the loss reduction     *)
(* across workers (reduce_loss_dict), the batch partitioner                *)
(* (partition_data), one forward/backward sub-step (forward_backward) and  *)
(* the training loop (do_train) with its checkpoint and failure policy.    *)
(*                                                                         *)
(* Six specifications share the module:                                    *)
(*   Spec          one worker running do_train; the model's outputs, the   *)
(*                 batches of the data loader and the outcome of every     *)
(*                 checkpoint write are chosen by the environment;         *)
(*   SpecReduce    world_size workers each calling reduce_loss_dict once;  *)
(*   SpecPartition one call of partition_data;                             *)
(*   SpecEta       the ETA string of one telemetry line;                   *)
(*   SpecStep      world_size workers each running forward_backward once;  *)
(*   SpecWorkers   the collectives of world_size workers running do_train. *)
(***************************************************************************)
EXTENDS Integers, Sequences, FiniteSets, TLC

\* ------------------------------------------------------------------ bounds
MaxIter == 3        \* len(data_loader) ranges over 0..MaxIter
MaxPeriod == 2      \* checkpoint_period ranges over 1..MaxPeriod
MaxBatch == 2       \* samples per batch of the data loader: 0..MaxBatch
MaxWorkers == 2     \* world size of SpecReduce: 1..MaxWorkers
MaxSamples == 10    \* samples per batch of SpecPartition: 0..MaxSamples
MaxNum == 4
MaxRemaining == 3     \* iterations left when a telemetry line is logged         \* partition count of SpecPartition: 0..MaxNum

StartIters == {0, 1}            \* arguments["iteration"] at the call
LogSteps == {2}                 \* log_step
DataPartitions == {1, 2}        \* data_partition
WorldSizes == {1, 2}            \* get_world_size() of the do_train worker
LossValues == {1, 2}            \* values a loss component takes
LossDims == {0, 1}              \* tensor ranks a loss component takes

\* ----------------------------------------------------------------- helpers
Min(a, b) == IF a < b THEN a ELSE b

\* Python's s[start:end] for 0 <= start <= end (indices past the end are cut).
Slice(s, start, end) == SubSeq(s, Min(start, Len(s)) + 1, Min(end, Len(s)))

\* A tensor holding one number: its rank (dim), its value num/den, and
\* whether the value is NaN.
Tensor(d, n) == [dim |-> d, num |-> n, den |-> 1, nan |-> FALSE]
NaNTensor(d) == [dim |-> d, num |-> 0, den |-> 1, nan |-> TRUE]

\* a + b on tensors (the rank of the result is the larger rank: broadcasting)
TAdd(a, b) ==
    [dim |-> IF a.dim < b.dim THEN b.dim ELSE a.dim,
     num |-> a.num * b.den + b.num * a.den,
     den |-> a.den * b.den,
     nan |-> a.nan \/ b.nan]

\* t / k  (true division, as `/=` on a float tensor)
TDiv(t, k) == [t EXCEPT !.den = t.den * k]

\* a NaN test that compares with a NaN constant: never true
IsNaNNever(t) == FALSE

\* `x != x`: true of NaN only
IsNaN(t) == t.nan

\* The loss component names the model may return, in lexicographic order.
SortedNames == <<"loss_box_reg", "loss_classifier">>
LossNames == {SortedNames[i] : i \in 1..Len(SortedNames)}

\* sorted(d.keys())
SortedKeys(d) == SelectSeq(SortedNames, LAMBDA k : k \in DOMAIN d)

\* sum(loss for loss in loss_dict.values())
RECURSIVE SumTensors(_)
SumTensors(s) == IF s = <<>> THEN Tensor(0, 0)
                 ELSE TAdd(Head(s), SumTensors(Tail(s)))
SumValues(d) == LET ks == SortedKeys(d)
                IN SumTensors([i \in 1..Len(ks) |-> d[ks[i]]])

\* ---------------------------------------------------------- partition_data
ImageList(tensors, sizes) == [tensors |-> tensors, image_sizes |-> sizes]

\* partition_data raises ZeroDivisionError at `len(...) // num` when num = 0
PartitionRaises(images, num) ==
    ~(num = 1 \/ Len(images.image_sizes) < num) /\ num = 0

\* the group size rounded up instead of down
PartitionEachCeil(images, num) == (Len(images.image_sizes) + num - 1) \div num

PartitionEach(images, num) == Len(images.image_sizes) \div num

\* partition_data without the guard for batches smaller than num
partition_data_unguarded(images, targets, num) ==
    IF num = 1
    THEN << <<images, targets>> >>
    ELSE LET each == Len(images.image_sizes) \div num
         IN [i \in 1..num |->
               LET start == (i - 1) * each
                   end == start + each
               IN << ImageList(Slice(images.tensors, start, end),
                               Slice(images.image_sizes, start, end)),
                     Slice(targets, start, end) >>]

\* the list partition_data returns (num >= 1)
partition_data(images, targets, num) ==
    IF num = 1 \/ Len(images.image_sizes) < num
    THEN << <<images, targets>> >>
    ELSE LET each == PartitionEach(images, num)
         IN [i \in 1..num |->
               LET start == (i - 1) * each
                   end == start + each
               IN << ImageList(Slice(images.tensors, start, end),
                               Slice(images.image_sizes, start, end)),
                     Slice(targets, start, end) >>]

\* -------------------------------------------------------- reduce_loss_dict
\* lines 23-28: the names and the values in sorted key order
LossNamesOf(loss_dict) == SortedKeys(loss_dict)
AllLosses(loss_dict) ==
    LET ks == SortedKeys(loss_dict)
    IN [i \in 1..Len(ks) |-> loss_dict[ks[i]]]

\* the rank check starting one position late: range(2, len(name_dims))
DimsMismatchFromSecond(loss_dict) ==
    LET al == [i \in 1..Len(SortedKeys(loss_dict)) |->
                  loss_dict[SortedKeys(loss_dict)[i]]]
    IN \E k \in 3..Len(al) : al[k].dim # al[1].dim

\* lines 29-33: some value's rank differs from the first value's rank
DimsMismatch(loss_dict) ==
    LET al == AllLosses(loss_dict)
    IN \E k \in 2..Len(al) : al[k].dim # al[1].dim

\* the element-wise sum of the stacked tensors of the workers in ws
RECURSIVE StackSum(_, _, _)
StackSum(stacks, ws, len) ==
    IF ws = {} THEN [i \in 1..len |-> Tensor(0, 0)]
    ELSE LET w == CHOOSE x \in ws : TRUE
             rest == StackSum(stacks, ws \ {w}, len)
         IN [i \in 1..len |-> TAdd(stacks[w][i], rest[i])]

\* the division by world_size left out
DivideOnRankNever(rank, all_losses, world_size) == all_losses

\* lines 41-44: only rank 0 divides by world_size
DivideOnRank(rank, all_losses, world_size) ==
    IF rank = 0
    THEN [i \in 1..Len(all_losses) |-> TDiv(all_losses[i], world_size)]
    ELSE all_losses

\* line 45: {k: v for k, v in zip(loss_names, all_losses)}
ZipDict(loss_names, all_losses) ==
    [k \in {loss_names[i] : i \in 1..Len(loss_names)} |->
        all_losses[CHOOSE i \in 1..Len(loss_names) : loss_names[i] = k]]


\* ------------------------------------------------------------------- state
VARIABLES
    \* do_train (one worker)
    cfg,            \* the arguments of do_train and the worker's rank and world size
    pc,             \* the position of do_train
    idx,            \* elements fetched from data_loader so far
    iteration,      \* the local variable `iteration`
    arguments,      \* the RunState record saved with every checkpoint
    groups,         \* all_image_target: the groups of the cycle still to run
    batchLen,       \* len(targets) of the batch of the current cycle
    sched,          \* calls of scheduler.step()
    grads,          \* backward passes accumulated since the last zero_grad()
    optSteps,       \* calls of optimizer.step()
    gradReduces,    \* cycles in which average_gradients issued its all-reduces
    collectives,    \* loss-reduction collectives issued by reduce_loss_dict
    meters,         \* MetricLogger: samples pushed per meter and the last loss
    logs,           \* iterations at which the telemetry line was logged
    saves,          \* every checkpointer.save call, in order
    save_to_disk,   \* checkpointer.save_to_disk
    err,            \* the exception that ended do_train ("none" while running)
    errorLogs,      \* error lines logged for empty batches (line 144)
    skipped,        \* history: the 1-based positions of the elements skipped as empty
    nan,            \* history: whether a NaN total was computed, and optSteps then
    \* reduce_loss_dict on every worker
    rWorld, rHvd, rDicts, rPc, rStack, rOut,
    \* partition_data
    pImages, pTargets, pNum, pResult, pStatus,
    \* the ETA of one telemetry line
    eIn, eOut, ePc,
    \* forward_backward on every worker
    fCfg, fPc, fMeters, fBackward, fErr,
    \* the collectives of every worker's do_train
    wCfg, wPc, wIdx, wGroups, wLeft, wReduces

trainVars == <<cfg, pc, idx, iteration, arguments, groups, batchLen, sched,
               grads, optSteps, gradReduces, collectives, meters, logs, saves,
               save_to_disk, err, errorLogs, skipped, nan>>
reduceVars == <<rWorld, rHvd, rDicts, rPc, rStack, rOut>>
partVars == <<pImages, pTargets, pNum, pResult, pStatus>>
etaVars == <<eIn, eOut, ePc>>
stepVars == <<fCfg, fPc, fMeters, fBackward, fErr>>
workerVars == <<wCfg, wPc, wIdx, wGroups, wLeft, wReduces>>
vars == <<trainVars, reduceVars, partVars, etaVars, stepVars, workerVars>>

\* The batch of s samples: sample i has tensor i, size metadata 100 + i and
\* target 200 + i.
BatchImages(s) == ImageList([i \in 1..s |-> i], [i \in 1..s |-> 100 + i])
BatchTargets(s) == [i \in 1..s |-> 200 + i]

\* ----------------------------------------------------------- SpecPartition
TrainIdle ==
    /\ cfg = [max_iter |-> 0] /\ pc = "idle" /\ idx = 0 /\ iteration = 0
    /\ arguments = [iteration |-> 0] /\ groups = <<>> /\ batchLen = 0
    /\ sched = 0 /\ grads = 0 /\ optSteps = 0 /\ gradReduces = 0
    /\ collectives = 0 /\ meters = [loss |-> 0] /\ logs = <<>> /\ saves = <<>>
    /\ save_to_disk = FALSE /\ err = "none" /\ errorLogs = 0
    /\ skipped = {} /\ nan = [seen |-> FALSE]

ReduceIdle ==
    /\ rWorld = 0 /\ rHvd = FALSE /\ rDicts = <<>> /\ rPc = <<>>
    /\ rStack = <<>> /\ rOut = <<>>

PartIdle ==
    /\ pImages = ImageList(<<>>, <<>>) /\ pTargets = <<>> /\ pNum = 1
    /\ pResult = <<>> /\ pStatus = "idle"

EtaIdle == eIn = [iteration |-> 0] /\ eOut = <<>> /\ ePc = "idle"

StepIdle ==
    /\ fCfg = [data_partition |-> 1] /\ fPc = <<>> /\ fMeters = <<>>
    /\ fBackward = <<>> /\ fErr = <<>>

WorkersIdle ==
    /\ wCfg = [world_size |-> 0] /\ wPc = <<>> /\ wIdx = <<>>
    /\ wGroups = <<>> /\ wLeft = <<>> /\ wReduces = <<>>

InitPartition ==
    /\ TrainIdle /\ ReduceIdle /\ EtaIdle /\ StepIdle /\ WorkersIdle
    /\ \E s \in 0..MaxSamples :
          /\ pImages = BatchImages(s)
          /\ pTargets = BatchTargets(s)
    /\ pNum \in 0..MaxNum
    /\ pResult = <<>>
    /\ pStatus = "call"

\* one call partition_data(pImages, pTargets, pNum)
PartitionCall ==
    /\ pStatus = "call"
    /\ IF PartitionRaises(pImages, pNum)
       THEN /\ pStatus' = "raised"
            /\ pResult' = pResult
       ELSE /\ pStatus' = "returned"
            /\ pResult' = partition_data(pImages, pTargets, pNum)
    /\ UNCHANGED <<pImages, pTargets, pNum, trainVars, reduceVars, etaVars, stepVars, workerVars>>

NextPartition == PartitionCall

SpecPartition == InitPartition /\ [][NextPartition]_vars

\* -------------------------------------------------------------- SpecReduce
Tensors == {Tensor(d, v) : d \in LossDims, v \in LossValues}
KeySets == SUBSET LossNames \ {{}}

Ranks(n) == 0..(n - 1)

InitReduce ==
    /\ TrainIdle /\ PartIdle /\ EtaIdle /\ StepIdle /\ WorkersIdle
    /\ rWorld \in 1..MaxWorkers
    /\ rHvd \in BOOLEAN
    /\ \E K \in KeySets : rDicts \in [Ranks(rWorld) -> [K -> Tensors]]
    /\ rPc = [w \in Ranks(rWorld) |-> "call"]
    /\ rStack = [w \in Ranks(rWorld) |-> <<>>]
    /\ rOut = [w \in Ranks(rWorld) |-> <<>>]

\* lines 19-34 on worker w: the identity for one worker; otherwise the rank
\* check, then the stacked tensor enters the collective
ReduceEnter(w) ==
    /\ rPc[w] = "call"
    /\ IF rWorld < 2
       THEN /\ rOut' = [rOut EXCEPT ![w] = rDicts[w]]
            /\ rPc' = [rPc EXCEPT ![w] = "returned"]
            /\ rStack' = rStack
       ELSE IF DimsMismatch(rDicts[w])
       THEN /\ rPc' = [rPc EXCEPT ![w] = "raised"]
            /\ UNCHANGED <<rOut, rStack>>
       ELSE /\ rStack' = [rStack EXCEPT ![w] = AllLosses(rDicts[w])]
            /\ rPc' = [rPc EXCEPT ![w] = "collective"]
            /\ rOut' = rOut
    /\ UNCHANGED <<rWorld, rHvd, rDicts, trainVars, partVars, etaVars, stepVars, workerVars>>

\* What the collective leaves in worker w's tensor: hvd.allreduce gives every
\* worker the sum; dist.reduce gives it to rank 0 only, and leaves in the
\* other workers' tensors either their input or the sum.
CollectiveResults(w, hvd, stacks, total) ==
    IF hvd \/ w = 0 THEN {total} ELSE {stacks[w], total}

\* lines 35-46: the collective completes once every worker has entered it
ReduceCollective ==
    /\ \A w \in Ranks(rWorld) : rPc[w] = "collective"
    /\ LET len == Len(rStack[0])
           total == StackSum(rStack, Ranks(rWorld), len)
       IN \E res \in [Ranks(rWorld) -> {rStack[w] : w \in Ranks(rWorld)} \cup {total}] :
            /\ \A w \in Ranks(rWorld) :
                  res[w] \in CollectiveResults(w, rHvd, rStack, total)
            /\ rOut' = [w \in Ranks(rWorld) |->
                          ZipDict(LossNamesOf(rDicts[w]),
                                  DivideOnRank(w, res[w], rWorld))]
    /\ rPc' = [w \in Ranks(rWorld) |-> "returned"]
    /\ UNCHANGED <<rWorld, rHvd, rDicts, rStack, trainVars, partVars, etaVars, stepVars, workerVars>>

NextReduce ==
    \/ \E w \in Ranks(rWorld) : ReduceEnter(w)
    \/ ReduceCollective

SpecReduce == InitReduce /\ [][NextReduce]_vars


\* -------------------------------------------------------------------- Spec
\* The first iterations excluded from the timing meters (line 198).
WarmupIters == 5

Configs ==
    {c \in [checkpoint_period : 1..MaxPeriod,
            max_iter : 0..MaxIter,
            start_iter : StartIters,
            log_step : LogSteps,
            data_partition : DataPartitions,
            explicit_average_grad : BOOLEAN,
            no_update : BOOLEAN,
            use_hvd : BOOLEAN,
            world_size : WorldSizes,
            rank : Ranks(MaxWorkers),
            grad_none : BOOLEAN] :
        /\ c.rank < c.world_size
        \* do_train leaves param.grad as the caller set it only when it runs no
        \* backward: in no-update mode (it matters to average_gradients only)
        /\ c.grad_none =>
              c.no_update /\ c.explicit_average_grad /\ c.world_size # 1}

\* What the model returns for a group: each loss component is a number of
\* rank 0 or 1, or NaN.
ModelTensors == {Tensor(0, 1), Tensor(0, 2), Tensor(1, 1), NaNTensor(0)}
ModelOutputs == [LossNames -> ModelTensors]

\* The elements the data loader yields: len(data_loader) of them.
NumElems(c) == c.max_iter

\* checkpointer.save(tag, **arguments): the call is recorded with the
\* iteration stored in the arguments it is given and the persistence flag.
SaveCall(tag, n, args, flag, ok) ==
    [tag |-> tag, n |-> n, iteration |-> args.iteration, persist |-> flag,
     ok |-> ok]

\* The outcomes of a save: a write can fail; with save_to_disk off nothing is
\* written, so nothing fails.
SaveOutcomes(flag) == IF flag THEN BOOLEAN ELSE {TRUE}

Init ==
    /\ ReduceIdle /\ PartIdle /\ EtaIdle /\ StepIdle /\ WorkersIdle
    /\ cfg \in Configs
    /\ pc = "loop"
    /\ idx = 0
    /\ iteration = cfg.start_iter
    /\ arguments = [iteration |-> cfg.start_iter, context |-> FALSE]
    /\ groups = <<>>
    /\ batchLen = 0
    /\ sched = 0 /\ grads = 0 /\ optSteps = 0 /\ gradReduces = 0
    /\ collectives = 0
    /\ meters = [loss |-> 0, time |-> 0]
    /\ logs = <<>>
    /\ saves = <<>>
    /\ save_to_disk \in BOOLEAN
    /\ err = "none"
    /\ errorLogs = 0
    /\ skipped = {}
    /\ nan = [seen |-> FALSE, optSteps |-> 0]

\* an emptiness test that never holds
IsEmptyBatchNever(images) == FALSE

\* line 143: hasattr(images, 'image_sizes') and len(images.image_sizes) == 0
\* (the batches of the data loader are ImageLists: they have image_sizes)
IsEmptyBatch(images) == Len(images.image_sizes) = 0

\* lines 142-146: the next element is empty: log an error and continue
SkipEmptyBatch ==
    /\ pc = "loop"
    /\ idx < NumElems(cfg)
    /\ \E s \in 0..MaxBatch :
          /\ IsEmptyBatch(BatchImages(s))
          /\ batchLen' = s
    /\ idx' = idx + 1
    /\ iteration' = cfg.start_iter + idx
    /\ errorLogs' = errorLogs + 1
    /\ skipped' = skipped \cup {idx + 1}
    /\ UNCHANGED <<cfg, pc, arguments, groups, sched, grads, optSteps,
                   gradReduces, collectives, meters, logs, saves,
                   save_to_disk, err, nan, reduceVars, partVars, etaVars, stepVars, workerVars>>

\* lines 142 and 161: the iteration of the element at 0-based position i of
\* enumerate(data_loader, start_iter), without the increment of line 161
CycleIterationZeroBased(c, i) == c.start_iter + i

\* lines 142 and 161: the iteration of the element at 0-based position i of
\* enumerate(data_loader, start_iter)
CycleIteration(c, i) == c.start_iter + i + 1

\* lines 142-180: the next element is not empty: advance the iteration and
\* the schedule, zero the gradients, partition the batch
BeginCycle ==
    /\ pc = "loop"
    /\ idx < NumElems(cfg)
    /\ \E s \in 0..MaxBatch :
          /\ ~IsEmptyBatch(BatchImages(s))
          /\ batchLen' = s
          /\ groups' = partition_data(BatchImages(s), BatchTargets(s),
                                      cfg.data_partition)
    /\ idx' = idx + 1
    /\ iteration' = CycleIteration(cfg, idx)
    /\ arguments' = [arguments EXCEPT !.iteration = CycleIteration(cfg, idx)]
    /\ sched' = IF cfg.no_update THEN sched ELSE sched + 1
    /\ grads' = IF cfg.no_update THEN grads ELSE 0
    /\ pc' = "forward_backward"
    /\ UNCHANGED <<errorLogs, cfg, optSteps, gradReduces, collectives, meters, logs,
                   saves, save_to_disk, err, skipped, nan, reduceVars,
                   partVars, etaVars, stepVars, workerVars>>

\* line 54: sum(loss_dict.values()) * loss_scalar, loss_scalar = 1/data_partition
WeightedTotal(loss_dict, data_partition) ==
    TDiv(SumValues(loss_dict), data_partition)

\* lines 59-60: the exception forward_backward ends with on a NaN total: the
\* save is not guarded, so an exception of the save replaces the RuntimeError
NaNError(ok) == IF ok THEN "NaN encountered!" ELSE "storage"

\* lines 182-187 and 48-82: forward_backward for the next group of the cycle
ForwardBackward ==
    /\ pc = "forward_backward"
    /\ groups # <<>>
    /\ \E loss_dict \in ModelOutputs :
        LET losses == WeightedTotal(loss_dict, cfg.data_partition)
            reduces == ~cfg.use_hvd /\ cfg.world_size >= 2
        IN
        /\ nan' = IF losses.nan /\ ~nan.seen
                  THEN [seen |-> TRUE, optSteps |-> optSteps] ELSE nan
        /\ IF IsNaN(losses)
           THEN \E ok \in SaveOutcomes(save_to_disk) :
                /\ arguments' = [arguments EXCEPT !.context = TRUE]
                /\ saves' = Append(saves,
                        SaveCall("NaN_context", cfg.rank, arguments',
                                 save_to_disk, ok))
                /\ err' = NaNError(ok)
                /\ pc' = "failed"
                /\ UNCHANGED <<groups, collectives, meters, grads>>
           ELSE IF reduces /\ DimsMismatch(loss_dict)
           THEN /\ err' = "shape"
                /\ pc' = "failed"
                /\ UNCHANGED <<arguments, saves, groups, collectives, meters,
                               grads>>
           ELSE /\ collectives' = IF reduces THEN collectives + 1
                                  ELSE collectives
                /\ meters' = [meters EXCEPT !.loss = @ + 1]
                /\ grads' = IF cfg.no_update THEN grads ELSE grads + 1
                /\ groups' = Tail(groups)
                /\ pc' = IF Tail(groups) = <<>> THEN "step"
                         ELSE "forward_backward"
                /\ UNCHANGED <<arguments, saves, err>>
    /\ UNCHANGED <<errorLogs, cfg, idx, iteration, batchLen, sched, optSteps,
                   gradReduces, logs, save_to_disk, skipped, reduceVars,
                   partVars, etaVars, stepVars, workerVars>>

\* lines 100-108: average_gradients issues all-reduces unless there is one worker
AveragesGradients(c) == c.explicit_average_grad /\ c.world_size # 1

\* the log cadence without the test for the last iteration
LogDueNoFinal(it, c) == it % c.log_step = 0

\* line 203
LogDue(it, c) == it % c.log_step = 0 \/ it = c.max_iter

\* the checkpoint cadence shifted by one iteration
CheckpointDueShifted(it, c) == (it - 1) % c.checkpoint_period = 0

\* line 231
CheckpointDue(it, c) == it % c.checkpoint_period = 0

\* lines 188-231: average the gradients, step the optimizer, update the
\* timing meters and log
OptimizerStep ==
    /\ pc = "step"
    /\ IF AveragesGradients(cfg) /\ cfg.grad_none
       THEN \* average_gradients, line 107: param.grad is None, it has no `data`
            /\ pc' = "failed"
            /\ err' = "AttributeError"
            /\ UNCHANGED <<gradReduces, optSteps, meters, logs>>
       ELSE /\ gradReduces' = IF AveragesGradients(cfg) THEN gradReduces + 1
                              ELSE gradReduces
            /\ optSteps' = IF cfg.no_update THEN optSteps ELSE optSteps + 1
            /\ meters' = IF iteration > cfg.start_iter + WarmupIters
                         THEN [meters EXCEPT !.time = @ + 1] ELSE meters
            /\ logs' = IF LogDue(iteration, cfg) THEN Append(logs, iteration)
                       ELSE logs
            /\ pc' = IF CheckpointDue(iteration, cfg) THEN "checkpoint"
                     ELSE "loop"
            /\ err' = err
    /\ UNCHANGED <<errorLogs, cfg, idx, iteration, arguments, groups, batchLen, sched,
                   grads, collectives, saves, save_to_disk, skipped, nan,
                   reduceVars, partVars, etaVars, stepVars, workerVars>>

\* the periodic save without @try_once
IntermediateSaveUncaught(ok) == ~ok

\* lines 110-113: @try_once swallows the exception of a failed save, so
\* try_save_intermediate_snapshot never raises
IntermediateSaveRaises(ok) == FALSE

\* lines 231-234: the periodic checkpoint
SaveIntermediate ==
    /\ pc = "checkpoint"
    /\ \E ok \in SaveOutcomes(save_to_disk) :
        /\ saves' = Append(saves, SaveCall("model", iteration, arguments,
                                           save_to_disk, ok))
        /\ IF IntermediateSaveRaises(ok)
           THEN pc' = "failed" /\ err' = "storage"
           ELSE pc' = "loop" /\ err' = err
    /\ UNCHANGED <<errorLogs, cfg, idx, iteration, arguments, groups, batchLen, sched,
                   grads, optSteps, gradReduces, collectives, meters, logs,
                   save_to_disk, skipped, nan, reduceVars, partVars, etaVars, stepVars, workerVars>>

\* the final save made best-effort too
FinalSaveCaught(ok) == FALSE

\* line 236: the exception of a failed final save is not caught
FinalSaveRaises(ok) == ~ok

\* line 236: the data loader is exhausted: the final checkpoint
SaveFinal ==
    /\ pc = "loop"
    /\ idx = NumElems(cfg)
    /\ \E ok \in SaveOutcomes(save_to_disk) :
        /\ saves' = Append(saves, SaveCall("model_final", 0, arguments,
                                           save_to_disk, ok))
        /\ IF FinalSaveRaises(ok)
           THEN pc' = "failed" /\ err' = "storage"
           ELSE /\ pc' = IF cfg.rank > 0 THEN "final_rank" ELSE "total"
                /\ err' = err
    /\ UNCHANGED <<errorLogs, cfg, idx, iteration, arguments, groups, batchLen, sched,
                   grads, optSteps, gradReduces, collectives, meters, logs,
                   save_to_disk, skipped, nan, reduceVars, partVars, etaVars, stepVars, workerVars>>

\* lines 237-241: a worker of rank > 0 saves with save_to_disk forced on; the
\* flag is restored by the statement after the save
SaveFinalRank ==
    /\ pc = "final_rank"
    /\ \E ok \in SaveOutcomes(TRUE) :
        /\ saves' = Append(saves, SaveCall("model_final_rank", cfg.rank,
                                           arguments, TRUE, ok))
        /\ IF ok
           THEN /\ save_to_disk' = save_to_disk
                /\ pc' = "total"
                /\ err' = err
           ELSE /\ save_to_disk' = TRUE
                /\ pc' = "failed"
                /\ err' = "storage"
    /\ UNCHANGED <<errorLogs, cfg, idx, iteration, arguments, groups, batchLen, sched,
                   grads, optSteps, gradReduces, collectives, meters, logs,
                   skipped, nan, reduceVars, partVars, etaVars, stepVars, workerVars>>

\* lines 243-250: the total training time is logged and do_train returns
LogTotal ==
    /\ pc = "total"
    /\ pc' = "done"
    /\ UNCHANGED <<errorLogs, cfg, idx, iteration, arguments, groups, batchLen, sched,
                   grads, optSteps, gradReduces, collectives, meters, logs,
                   saves, save_to_disk, err, skipped, nan, reduceVars,
                   partVars, etaVars, stepVars, workerVars>>

Next ==
    \/ SkipEmptyBatch
    \/ BeginCycle
    \/ ForwardBackward
    \/ OptimizerStep
    \/ SaveIntermediate
    \/ SaveFinal
    \/ SaveFinalRank
    \/ LogTotal

Spec == Init /\ [][Next]_vars

\* ----------------------------------------------------------------- SpecEta
\* The ETA string of one telemetry line (lines 205-209).  A string is the
\* sequence of its characters.
DigitChars == <<"0", "1", "2", "3", "4", "5", "6", "7", "8", "9">>
Unknown == <<"U", "n", "k", "n", "o", "w", "n">>

\* "%d" % n, n >= 0
RECURSIVE Decimal(_)
Decimal(n) ==
    IF n < 10 THEN <<DigitChars[n + 1]>>
    ELSE Decimal(n \div 10) \o <<DigitChars[(n % 10) + 1]>>

\* "%02d" % n, n >= 0
Pad2(n) == IF n < 10 THEN <<"0">> \o Decimal(n) ELSE Decimal(n)

\* the hours of a timedelta printed with two digits
HoursFieldPadded(hh) == Pad2(hh)

\* the hours of a timedelta as str prints them: "%d"
HoursField(hh) == Decimal(hh)

\* str(datetime.timedelta(seconds = sec)), sec >= 0 a whole number:
\* "%d:%02d:%02d", after "%d day%s, " when the days are not 0
TimedeltaStr(sec) ==
    LET days == sec \div 86400
        rest == sec % 86400
        hh == rest \div 3600
        mm == (rest \div 60) % 60
        ss == rest % 60
        hms == HoursField(hh) \o <<":">> \o Pad2(mm) \o <<":">> \o Pad2(ss)
        plural == IF days # 1 THEN <<"s">> ELSE <<>>
    IN IF days # 0
       THEN Decimal(days) \o <<" ", "d", "a", "y">> \o plural \o <<",", " ">>
            \o hms
       ELSE hms

\* line 206-207: int(meters.time.global_avg * (max_iter - iteration)), the
\* average given in half seconds
EtaSeconds(avg2, max_iter, it) == (avg2 * (max_iter - it)) \div 2

\* lines 198-205: meters has a `time` meter once an iteration beyond the
\* first WarmupIters of the run was timed
HasTimeMeter(it, start_iter) == it > start_iter + WarmupIters

\* lines 205-209
EtaString(e) ==
    IF HasTimeMeter(e.iteration, e.start_iter)
    THEN TimedeltaStr(EtaSeconds(e.global_avg2, e.max_iter, e.iteration))
    ELSE Unknown

\* iterations of the run at the telemetry line, and average batch times in
\* half seconds: 0.5 s, 20 min 0.5 s, 3 h 20 min, 5 h, 1 day
SinceStart == 1..7
GlobalAvgs == {1, 2401, 24000, 36000, 172800}

InitEta ==
    /\ TrainIdle /\ ReduceIdle /\ PartIdle /\ StepIdle /\ WorkersIdle
    /\ \E st \in StartIters, k \in SinceStart, r \in 0..MaxRemaining,
          a \in GlobalAvgs :
          eIn = [start_iter |-> st, iteration |-> st + k,
                 max_iter |-> st + k + r, global_avg2 |-> a]
    /\ eOut = <<>>
    /\ ePc = "log"

EtaLog ==
    /\ ePc = "log"
    /\ eOut' = EtaString(eIn)
    /\ ePc' = "logged"
    /\ UNCHANGED <<eIn, trainVars, reduceVars, partVars, stepVars, workerVars>>

NextEta == EtaLog
SpecEta == InitEta /\ [][NextEta]_vars

\* ---------------------------------------------------------------- SpecStep
\* Every worker of the process group runs forward_backward once, on the
\* loss mapping rDicts[w] its model returned; reduce_loss_dict is the one of
\* SpecReduce, called from line 64.  is_hvd_initialized() is both the
\* use_hvd of do_train (line 138) and the test of line 35.

\* the mapping pushed into the meters, were it the local one on either path
MeterInputLocal(use_hvd, loss_dict, loss_dict_reduced) == loss_dict

\* lines 63-69: the mapping pushed into the meters
MeterInput(use_hvd, loss_dict, loss_dict_reduced) ==
    IF use_hvd THEN loss_dict ELSE loss_dict_reduced

\* lines 65-66 and 68-69: meters.update(loss = sum of the values, **mapping)
MeterSample(d) == [loss |-> SumValues(d), parts |-> d]

\* lines 73-82: unless no_update, every branch calls backward on `losses`
BackwardOf(no_update, losses) == IF no_update THEN <<>> ELSE <<losses>>

InitStep ==
    /\ TrainIdle /\ PartIdle /\ EtaIdle /\ WorkersIdle
    /\ rWorld \in 1..MaxWorkers
    /\ rHvd \in BOOLEAN
    /\ rDicts \in [Ranks(rWorld) -> ModelOutputs]
    /\ rPc = [w \in Ranks(rWorld) |-> "idle"]
    /\ rStack = [w \in Ranks(rWorld) |-> <<>>]
    /\ rOut = [w \in Ranks(rWorld) |-> <<>>]
    /\ fCfg \in [data_partition : DataPartitions, no_update : BOOLEAN]
    /\ fPc = [w \in Ranks(rWorld) |-> "model"]
    /\ fMeters = [w \in Ranks(rWorld) |-> <<>>]
    /\ fBackward = [w \in Ranks(rWorld) |-> <<>>]
    /\ fErr = [w \in Ranks(rWorld) |-> "none"]

\* lines 52-64 on worker w: the NaN test, then the call of reduce_loss_dict
\* unless use_hvd
StepForward(w) ==
    /\ fPc[w] = "model"
    /\ IF IsNaN(WeightedTotal(rDicts[w], fCfg.data_partition))
       THEN /\ \E ok \in BOOLEAN : fErr' = [fErr EXCEPT ![w] = NaNError(ok)]
            /\ fPc' = [fPc EXCEPT ![w] = "raised"]
            /\ rPc' = rPc
       ELSE IF rHvd
       THEN /\ fPc' = [fPc EXCEPT ![w] = "update"]
            /\ UNCHANGED <<fErr, rPc>>
       ELSE /\ fPc' = [fPc EXCEPT ![w] = "reduce"]
            /\ rPc' = [rPc EXCEPT ![w] = "call"]
            /\ fErr' = fErr
    /\ UNCHANGED <<fCfg, fMeters, fBackward, rWorld, rHvd, rDicts, rStack, rOut,
                   trainVars, partVars, etaVars, workerVars>>

\* line 64: reduce_loss_dict raised on worker w
StepReduceRaised(w) ==
    /\ fPc[w] = "reduce" /\ rPc[w] = "raised"
    /\ fPc' = [fPc EXCEPT ![w] = "raised"]
    /\ fErr' = [fErr EXCEPT ![w] = "shape"]
    /\ UNCHANGED <<fCfg, fMeters, fBackward, reduceVars, trainVars, partVars,
                   etaVars, workerVars>>

\* lines 65-82 on worker w: the meters are updated, then backward runs
StepUpdate(w) ==
    /\ \/ fPc[w] = "update"
       \/ fPc[w] = "reduce" /\ rPc[w] = "returned"
    /\ fMeters' = [fMeters EXCEPT ![w] =
                      <<MeterSample(MeterInput(rHvd, rDicts[w], rOut[w]))>>]
    /\ fBackward' = [fBackward EXCEPT ![w] =
                        BackwardOf(fCfg.no_update,
                                   WeightedTotal(rDicts[w],
                                                 fCfg.data_partition))]
    /\ fPc' = [fPc EXCEPT ![w] = "done"]
    /\ UNCHANGED <<fCfg, fErr, reduceVars, trainVars, partVars, etaVars, workerVars>>

NextStep ==
    \/ \E w \in Ranks(rWorld) : StepForward(w)
    \/ \E w \in Ranks(rWorld) : ReduceEnter(w)
    \/ ReduceCollective
    \/ \E w \in Ranks(rWorld) : StepReduceRaised(w)
    \/ \E w \in Ranks(rWorld) : StepUpdate(w)

SpecStep == InitStep /\ [][NextStep]_vars

\* ------------------------------------------------------------- SpecWorkers
\* The workers of one process group each run do_train over a data loader
\* of the same length; a worker's batches are its own.  The state of a
\* worker is its place between the collectives it calls: dist.reduce in
\* reduce_loss_dict (line 36) and dist.all_reduce in average_gradients
\* (line 107, one parameter).  A collective is a barrier: it returns once
\* every worker of the group has entered one of its kind.
WorkerConfigs ==
    [world_size : 1..MaxWorkers,
     max_iter : 0..MaxIter,
     data_partition : DataPartitions,
     explicit_average_grad : BOOLEAN,
     use_hvd : BOOLEAN]

InitWorkers ==
    /\ TrainIdle /\ ReduceIdle /\ PartIdle /\ EtaIdle /\ StepIdle
    /\ wCfg \in WorkerConfigs
    /\ wPc = [w \in Ranks(wCfg.world_size) |-> "loop"]
    /\ wIdx = [w \in Ranks(wCfg.world_size) |-> 0]
    /\ wGroups = [w \in Ranks(wCfg.world_size) |-> 0]
    /\ wLeft = [w \in Ranks(wCfg.world_size) |-> 0]
    /\ wReduces = [w \in Ranks(wCfg.world_size) |-> 0]

\* lines 20-21 and 63: forward_backward enters dist.reduce
EntersReduce(c) == ~c.use_hvd /\ c.world_size >= 2

\* lines 142-180 on worker w: an empty batch is skipped, another is
\* partitioned
WorkerBegin(w) ==
    /\ wPc[w] = "loop" /\ wIdx[w] < wCfg.max_iter
    /\ wIdx' = [wIdx EXCEPT ![w] = @ + 1]
    /\ \E s \in 0..MaxBatch :
          IF IsEmptyBatch(BatchImages(s))
          THEN UNCHANGED <<wPc, wGroups, wLeft, wReduces>>
          ELSE LET n == Len(partition_data(BatchImages(s), BatchTargets(s),
                                           wCfg.data_partition))
               IN /\ wGroups' = [wGroups EXCEPT ![w] = n]
                  /\ wLeft' = [wLeft EXCEPT ![w] = n]
                  /\ wReduces' = [wReduces EXCEPT ![w] = 0]
                  /\ wPc' = [wPc EXCEPT ![w] = "groups"]
    /\ UNCHANGED <<wCfg, trainVars, reduceVars, partVars, etaVars, stepVars>>

\* lines 182-187 and 52-64 on worker w: forward_backward of the next group
\* raises on a NaN total, and otherwise enters the reduction or goes on
WorkerForward(w) ==
    /\ wPc[w] = "groups" /\ wLeft[w] > 0
    /\ \E isnan \in BOOLEAN :
          IF isnan
          THEN /\ wPc' = [wPc EXCEPT ![w] = "raised"]
               /\ UNCHANGED <<wLeft, wReduces>>
          ELSE IF EntersReduce(wCfg)
          THEN /\ wPc' = [wPc EXCEPT ![w] = "reduce"]
               /\ wReduces' = [wReduces EXCEPT ![w] = @ + 1]
               /\ wLeft' = wLeft
          ELSE /\ wLeft' = [wLeft EXCEPT ![w] = @ - 1]
               /\ UNCHANGED <<wPc, wReduces>>
    /\ UNCHANGED <<wCfg, wIdx, wGroups, trainVars, reduceVars, partVars,
                   etaVars, stepVars>>

\* line 36: every worker has entered dist.reduce; each goes on with the
\* rest of its forward_backward
WorkerReduceDone ==
    /\ \A w \in Ranks(wCfg.world_size) : wPc[w] = "reduce"
    /\ wPc' = [w \in Ranks(wCfg.world_size) |-> "groups"]
    /\ wLeft' = [w \in Ranks(wCfg.world_size) |-> wLeft[w] - 1]
    /\ UNCHANGED <<wCfg, wIdx, wGroups, wReduces, trainVars, reduceVars,
                   partVars, etaVars, stepVars>>

\* lines 188-234 on worker w after its last group: average_gradients enters
\* dist.all_reduce, or the cycle ends
WorkerAverage(w) ==
    /\ wPc[w] = "groups" /\ wLeft[w] = 0
    /\ wPc' = [wPc EXCEPT ![w] = IF AveragesGradients(wCfg)
                                 THEN "all_reduce" ELSE "loop"]
    /\ UNCHANGED <<wCfg, wIdx, wGroups, wLeft, wReduces, trainVars,
                   reduceVars, partVars, etaVars, stepVars>>

\* line 107: every worker has entered dist.all_reduce; each ends its cycle
WorkerAllReduceDone ==
    /\ \A w \in Ranks(wCfg.world_size) : wPc[w] = "all_reduce"
    /\ wPc' = [w \in Ranks(wCfg.world_size) |-> "loop"]
    /\ UNCHANGED <<wCfg, wIdx, wGroups, wLeft, wReduces, trainVars,
                   reduceVars, partVars, etaVars, stepVars>>

\* lines 236-250 on worker w: the loop is left
WorkerFinish(w) ==
    /\ wPc[w] = "loop" /\ wIdx[w] = wCfg.max_iter
    /\ wPc' = [wPc EXCEPT ![w] = "done"]
    /\ UNCHANGED <<wCfg, wIdx, wGroups, wLeft, wReduces, trainVars,
                   reduceVars, partVars, etaVars, stepVars>>

NextWorkers ==
    \/ \E w \in Ranks(wCfg.world_size) : WorkerBegin(w)
    \/ \E w \in Ranks(wCfg.world_size) : WorkerForward(w)
    \/ WorkerReduceDone
    \/ \E w \in Ranks(wCfg.world_size) : WorkerAverage(w)
    \/ WorkerAllReduceDone
    \/ \E w \in Ranks(wCfg.world_size) : WorkerFinish(w)

SpecWorkers == InitWorkers /\ [][NextWorkers]_vars


\* ------------------------------------------------------------------ claims
SavesWith(tag) == SelectSeq(saves, LAMBDA r : r.tag = tag)
SaveNumbers(tag) == [i \in 1..Len(SavesWith(tag)) |-> SavesWith(tag)[i].n]
SeqRange(q) == {q[i] : i \in 1..Len(q)}
Increasing(q) == \A i \in 1..Len(q) : \A j \in 1..Len(q) : i < j => q[i] < q[j]

\* do_train has left its loop: it is past line 235, or a save after the loop
\* has failed
LoopLeft ==
    \/ pc \in {"final_rank", "total", "done"}
    \/ pc = "failed" /\ ~nan.seen /\ err = "storage"

\* C1 as stated: in every run from start iteration 0 that returns, the
\* intermediate saves are tagged exactly with the multiples of
\* checkpoint_period up to max_iter, and exactly one "model_final" save is
\* attempted.
C1_SavesAtEveryMultiple ==
    (cfg.start_iter = 0 /\ pc = "done") =>
        /\ SeqRange(SaveNumbers("model")) =
              {i \in 1..cfg.max_iter : i % cfg.checkpoint_period = 0}
        /\ Len(SavesWith("model_final")) = 1

\* C1 amended: in every run from start iteration 0, the intermediate saves
\* attempted are tagged, once each and in increasing order, with the
\* multiples of checkpoint_period up to max_iter whose element was not an
\* empty batch, all of them once the loop is left; no "model_final" save is
\* attempted inside the loop and exactly one after it.
C1_SavesAtProcessedMultiples ==
    cfg.start_iter = 0 =>
        /\ Increasing(SaveNumbers("model"))
        /\ SeqRange(SaveNumbers("model")) \subseteq
              {i \in 1..idx : i % cfg.checkpoint_period = 0 /\ i \notin skipped}
        /\ LoopLeft =>
              /\ idx = cfg.max_iter
              /\ SeqRange(SaveNumbers("model")) =
                    {i \in 1..cfg.max_iter :
                        i % cfg.checkpoint_period = 0 /\ i \notin skipped}
              /\ Len(SavesWith("model_final")) = 1
        /\ ~LoopLeft => Len(SavesWith("model_final")) = 0

\* C1 witness: a run of 3 iterations with period 2 has returned with one
\* intermediate save, at iteration 2, and the final save.
C1_Witness ==
    /\ cfg.start_iter = 0 /\ pc = "done"
    /\ cfg.max_iter = 3 /\ cfg.checkpoint_period = 2
    /\ SaveNumbers("model") = <<2>>
    /\ Len(SavesWith("model_final")) = 1

\* C2: once a NaN weighted total was computed, exactly one save tagged
\* "NaN_context_<rank>" with this worker's rank has been attempted, no
\* optimizer step was applied since, and do_train has ended with an error
\* without a final checkpoint.
C2_NaNAborts ==
    nan.seen =>
        /\ pc = "failed"
        /\ err # "none"
        /\ Len(SavesWith("NaN_context")) = 1
        /\ SavesWith("NaN_context")[1].n = cfg.rank
        /\ optSteps = nan.optSteps
        /\ Len(SavesWith("model_final")) = 0
        /\ Len(SavesWith("model_final_rank")) = 0

\* C2 witness: the worker of rank 1 diverged after a cycle that stepped the
\* optimizer.
C2_Witness ==
    /\ nan.seen /\ pc = "failed" /\ cfg.rank = 1 /\ optSteps >= 1
    /\ Len(SavesWith("NaN_context")) = 1

\* C3 as stated: whether the "NaN_context_<rank>" save succeeds or fails,
\* forward_backward ends with the NaN error.
C3_NaNErrorWhateverTheSave ==
    nan.seen => err = "NaN encountered!"

\* C4: a failed periodic save leaves do_train at the head of its loop with no
\* error and with the RunState and every counter as they were; and a run
\* that has ended after a failed periodic save, without a NaN or a rank
\* mismatch, has attempted the final checkpoint.
C4_FailedIntermediateStep ==
    (pc = "checkpoint" /\ Len(saves') = Len(saves) + 1
        /\ ~saves'[Len(saves')].ok)
    => /\ pc' = "loop"
       /\ err' = "none"
       /\ UNCHANGED <<arguments, idx, iteration, sched, grads, optSteps,
                      meters, logs, save_to_disk>>
C4_FailedIntermediateRun ==
    (/\ pc \in {"done", "failed"}
     /\ \E i \in 1..Len(saves) : saves[i].tag = "model" /\ ~saves[i].ok
     /\ ~nan.seen /\ err \notin {"shape", "AttributeError"})
    => Len(SavesWith("model_final")) = 1
C4_IntermediateFailureContinues ==
    [][C4_FailedIntermediateStep]_vars /\ []C4_FailedIntermediateRun

\* C4 witness: a run has returned although its periodic save at an iteration
\* before max_iter failed.
C4_Witness ==
    /\ pc = "done"
    /\ \E i \in 1..Len(saves) :
          saves[i].tag = "model" /\ ~saves[i].ok /\ saves[i].n < cfg.max_iter
    /\ Len(SavesWith("model_final")) = 1

\* C5: when the "model_final" save has failed, do_train has ended with the
\* storage error: no rank-suffixed save was attempted and the run never
\* reaches its total-time log or its return.
C5_FinalFailureIsFatal ==
    (\E i \in 1..Len(saves) : saves[i].tag = "model_final" /\ ~saves[i].ok)
    => /\ pc = "failed"
       /\ err = "storage"
       /\ Len(SavesWith("model_final_rank")) = 0

\* C5 witness: the final save of a worker of rank > 0 failed after a cycle.
C5_Witness ==
    /\ pc = "failed" /\ cfg.rank > 0 /\ optSteps >= 1
    /\ \E i \in 1..Len(saves) : saves[i].tag = "model_final" /\ ~saves[i].ok

\* C6: the step that fetches an empty batch leaves do_train at the head of
\* its loop and changes neither the RunState, the schedule, the gradients,
\* the optimizer, the meters, the collectives issued, the telemetry log nor
\* the saves (the error message of line 144 is the only thing it logs).
C6_EmptyBatchStep ==
    (idx' = idx + 1 /\ batchLen' = 0)
    => /\ pc' = "loop"
       /\ UNCHANGED <<arguments, sched, grads, optSteps, gradReduces,
                      collectives, meters, logs, saves, save_to_disk, err>>
C6_EmptyBatchSkipped == [][C6_EmptyBatchStep]_vars

\* C6 witness: an empty batch was skipped right after a cycle that stepped
\* the optimizer, and the loop goes on.
C6_Witness ==
    /\ pc = "loop" /\ idx \in skipped /\ optSteps >= 1
    /\ idx < NumElems(cfg)
    /\ arguments.iteration < cfg.start_iter + idx

\* the sum over the workers in ws of the input value of key k
RECURSIVE WorkerSum(_, _)
WorkerSum(k, ws) ==
    IF ws = {} THEN 0
    ELSE LET w == CHOOSE x \in ws : TRUE
         IN rDicts[w][k].num + WorkerSum(k, ws \ {w})

\* C7: what reduce_loss_dict returns on rank 0 is the input mapping itself
\* for one worker, and otherwise maps every key to the arithmetic mean of
\* the key's values over all workers.
C7_MeanOnCoordinator ==
    rPc[0] = "returned" =>
        IF rWorld = 1
        THEN rOut[0] = rDicts[0]
        ELSE /\ DOMAIN rOut[0] = DOMAIN rDicts[0]
             /\ \A k \in DOMAIN rDicts[0] :
                   /\ ~rOut[0][k].nan
                   /\ rOut[0][k].num * rWorld =
                         rOut[0][k].den * WorkerSum(k, Ranks(rWorld))

\* C7 witness: two workers with different values of a key, and rank 0 has
\* its result.
C7_Witness ==
    /\ rWorld = 2 /\ rPc[0] = "returned"
    /\ \E k \in DOMAIN rDicts[0] : rDicts[0][k].num # rDicts[1][k].num

\* the values of a mapping do not all have the same rank
MixedDims(d) == \E j \in DOMAIN d : \E k \in DOMAIN d : d[j].dim # d[k].dim

\* C8: with more than one worker, a worker whose mapping has values of
\* different ranks never enters the collective and never gets a result.
C8_ShapeMismatchRaises ==
    \A w \in Ranks(rWorld) :
        (rWorld > 1 /\ MixedDims(rDicts[w])) =>
            /\ rPc[w] \in {"call", "raised"}
            /\ rStack[w] = <<>>
            /\ rOut[w] = <<>>

\* C8 witness: a worker of a two-worker run has raised.
C8_Witness ==
    /\ rWorld = 2
    /\ \E w \in Ranks(rWorld) : rPc[w] = "raised" /\ MixedDims(rDicts[w])

\* C9: for 1 < num <= sample count, partition_data returns num groups; group
\* i holds, for images and targets alike, the samples i*each+1 ..
\* (i+1)*each of the batch in order (each = count // num), so the samples
\* after each*num are in no group.
C9_ContiguousGroups ==
    LET s == Len(pImages.image_sizes)
        each == s \div pNum
    IN (pStatus # "call" /\ pNum > 1 /\ s >= pNum) =>
        /\ pStatus = "returned"
        /\ Len(pResult) = pNum
        /\ \A i \in 1..Len(pResult) :
            /\ Len(pResult[i][1].tensors) = each
            /\ Len(pResult[i][1].image_sizes) = each
            /\ Len(pResult[i][2]) = each
            /\ \A j \in 1..each :
                /\ pResult[i][1].tensors[j] = pImages.tensors[(i - 1) * each + j]
                /\ pResult[i][1].image_sizes[j] =
                      pImages.image_sizes[(i - 1) * each + j]
                /\ pResult[i][2][j] = pTargets[(i - 1) * each + j]
        /\ \A m \in (each * pNum + 1)..s : \A i \in 1..Len(pResult) :
              \A j \in 1..Len(pResult[i][2]) :
                 /\ pResult[i][2][j] # pTargets[m]
                 /\ pResult[i][1].tensors[j] # pImages.tensors[m]

\* C9 witness: 10 samples in 3 partitions gave 3 groups of 3, the last
\* sample in none.
C9_Witness ==
    /\ pStatus = "returned" /\ Len(pTargets) = 10 /\ pNum = 3
    /\ Len(pResult) = 3
    /\ \A i \in 1..3 : Len(pResult[i][2]) = 3
    /\ pResult[3][2][3] = pTargets[9]

\* C10: for num = 1 or fewer samples than num, partition_data returns one
\* group, the batch it was given.
C10_SingleGroup ==
    (pStatus # "call" /\ (pNum = 1 \/ Len(pImages.image_sizes) < pNum)) =>
        /\ pStatus = "returned"
        /\ pResult = << <<pImages, pTargets>> >>

\* C10 witness: a batch of 2 samples asked in 3 partitions came back whole.
C10_Witness ==
    /\ pStatus = "returned" /\ Len(pTargets) = 2 /\ pNum = 3
    /\ Len(pResult) = 1


\* all_image_target of the current cycle
GroupsOfCycle ==
    partition_data(BatchImages(batchLen), BatchTargets(batchLen),
                   cfg.data_partition)

\* C11 as stated: in every cycle the weights of the groups run sum to 1: the
\* number of groups times 1/data_partition is 1.
C11_WeightsSumToOne ==
    pc \in {"forward_backward", "step"} =>
        Len(GroupsOfCycle) * 1 = 1 * cfg.data_partition

\* C12 as stated: a rank-suffixed final save is attempted by workers of
\* rank > 0 only, tagged with the rank and with save_to_disk on, and once it
\* was attempted save_to_disk is back at its prior value, whether the save
\* succeeded or failed; no save of a rank-0 worker sees a changed flag.
C12_FlagForcedAndRestored ==
    /\ \A i \in 1..Len(saves) :
          saves[i].tag = "model_final_rank" =>
              /\ cfg.rank > 0 /\ saves[i].n = cfg.rank /\ saves[i].persist
              /\ save_to_disk = SavesWith("model_final")[1].persist
    /\ (cfg.rank > 0 /\ pc \in {"total", "done"}) =>
          Len(SavesWith("model_final_rank")) = 1
    /\ cfg.rank = 0 =>
          \A i \in 1..Len(saves) : saves[i].persist = save_to_disk

\* the positions of the elements whose cycle ran to its end (line 230)
CompletedCycles ==
    {j \in 1..idx : j \notin skipped} \
    (IF \/ pc \in {"forward_backward", "step"}
        \/ pc = "failed" /\ (nan.seen \/ err \in {"shape", "AttributeError"})
     THEN {idx} ELSE {})

C17_AveragerOncePerOptimizerStep ==
    /\ gradReduces > 0 => cfg.explicit_average_grad /\ cfg.world_size > 1
    /\ gradReduces <= optSteps
    /\ (pc = "loop" /\ AveragesGradients(cfg)) => gradReduces = optSteps

\* C19: the step of forward_backward that computes a NaN total enters no
\* loss-reduction collective, pushes no sample into the meters and runs no
\* backward, and ends do_train.
C19_NaNStep ==
    (~nan.seen /\ nan'.seen)
    => /\ UNCHANGED <<meters, collectives, grads>>
       /\ pc' = "failed"
C19_NaNBeforeReduction == [][C19_NaNStep]_vars

\* C19 witness: a worker that reduces its losses with another diverged after
\* a group that was reduced and pushed into the meters.
C19_Witness ==
    /\ nan.seen /\ pc = "failed" /\ cfg.world_size = 2 /\ ~cfg.use_hvd
    /\ collectives >= 1 /\ meters.loss = collectives /\ ~cfg.no_update

\* the position of the last element that was not skipped (0 if none)
LastRunCycle ==
    LET R == {j \in 1..idx : j \notin skipped}
    IN IF R = {} THEN 0 ELSE CHOOSE m \in R : \A j \in R : j <= m

\* C20: the iteration of the RunState is the iteration of the last cycle that
\* was not skipped (the start iteration if none), it never decreases and
\* grows with every cycle that is not skipped, and the number in the tag of
\* an intermediate save is the iteration stored in the RunState saved.
C20_IterationState ==
    /\ arguments.iteration = cfg.start_iter + LastRunCycle
    /\ \A i \in 1..Len(saves) :
          saves[i].tag = "model" => saves[i].n = saves[i].iteration
C20_IterationStep ==
    /\ arguments'.iteration >= arguments.iteration
    /\ (idx' = idx + 1 /\ batchLen' > 0) =>
          arguments'.iteration > arguments.iteration
C20_IterationCounter == [][C20_IterationStep]_vars /\ []C20_IterationState

\* C20 witness: a resumed run saved at iteration 3 after its first element
\* was skipped.
C20_Witness ==
    /\ cfg.start_iter = 1 /\ 1 \in skipped /\ arguments.iteration = 3
    /\ \E i \in 1..Len(saves) : saves[i].tag = "model" /\ saves[i].n = 3


DigitVal(ch) == CHOOSE d \in 0..9 : DigitChars[d + 1] = ch
IsDigit(ch) == \E d \in 0..9 : DigitChars[d + 1] = ch

\* C14 as stated: every ETA logged is a zero-padded HH:MM:SS string, also
\* under 10 hours and in the first 5 iterations of the run.
C14_ZeroPaddedEta ==
    ePc = "logged" =>
        /\ Len(eOut) = 8
        /\ eOut[3] = ":" /\ eOut[6] = ":"
        /\ \A i \in {1, 2, 4, 5, 7, 8} : IsDigit(eOut[i])

\* C14 amended: the ETA is 'Unknown' in the first 5 iterations of the run;
\* after them it is the whole seconds left printed as H:MM:SS, minutes and
\* seconds with two digits and the hours without padding (one digit under
\* 10 hours), after "N day, " or "N days, " from one day on.
C14_EtaAsTimedelta ==
    ePc = "logged" =>
        IF eIn.iteration <= eIn.start_iter + 5
        THEN eOut = <<"U", "n", "k", "n", "o", "w", "n">>
        ELSE LET sec == (eIn.global_avg2 * (eIn.max_iter - eIn.iteration))
                            \div 2
                 n == Len(eOut)
                 hh == (sec % 86400) \div 3600
             IN /\ n >= 7
                /\ eOut[n - 5] = ":" /\ eOut[n - 2] = ":"
                /\ 10 * DigitVal(eOut[n - 4]) + DigitVal(eOut[n - 3])
                      = (sec \div 60) % 60
                /\ 10 * DigitVal(eOut[n - 1]) + DigitVal(eOut[n]) = sec % 60
                /\ IF hh < 10
                   THEN /\ DigitVal(eOut[n - 6]) = hh
                        /\ sec < 86400 => n = 7
                   ELSE /\ 10 * DigitVal(eOut[n - 7]) + DigitVal(eOut[n - 6])
                             = hh
                        /\ sec < 86400 => n = 8
                /\ sec >= 86400 =>
                      /\ sec \div 86400 < 10
                      /\ DigitVal(eOut[1]) = sec \div 86400
                      /\ SubSeq(eOut, 2, 5) = <<" ", "d", "a", "y">>
                      /\ eOut[6] = "s" <=> sec \div 86400 > 1
                      /\ n = (IF hh < 10 THEN 7 ELSE 8)
                             + (IF sec \div 86400 > 1 THEN 8 ELSE 7)

\* C14 witness: an ETA of 1 hour and 1 second was logged as 1:00:01.
C14_Witness ==
    /\ ePc = "logged" /\ eIn.iteration > eIn.start_iter + 5
    /\ eOut = <<"1", ":", "0", "0", ":", "0", "1">>


\* two tensors hold the same number
SameValue(a, b) == a.nan = b.nan /\ a.num * b.den = b.num * a.den

\* what forward_backward passes to backward on worker w: the weighted total
\* of its own losses
LocalBackward(w) ==
    /\ fCfg.no_update => fBackward[w] = <<>>
    /\ ~fCfg.no_update =>
          /\ Len(fBackward[w]) = 1
          /\ SameValue(fBackward[w][1],
                       TDiv(SumValues(rDicts[w]), fCfg.data_partition))

\* worker 0 pushed the mean over the workers of every loss component
MeanInMeters ==
    /\ Len(fMeters[0]) = 1
    /\ \A k \in LossNames :
          LET m == fMeters[0][1].parts[k]
          IN ~m.nan /\ m.num * rWorld = m.den * WorkerSum(k, Ranks(rWorld))

InCollective(w) == wPc[w] \in {"reduce", "all_reduce"}

\* C15 as stated, for runs in which every batch is one group and no worker
\* raised: whatever batches are empty, no worker waits in a collective that
\* another worker, having left its loop, will never enter.
C15_SkipKeepsCollectivesMatched ==
    (/\ wCfg.data_partition = 1
     /\ \A w \in Ranks(wCfg.world_size) : wPc[w] # "raised")
    => \A v, w \in Ranks(wCfg.world_size) :
          ~(InCollective(v) /\ wPc[w] = "done")

\* C18 as stated, where forward_backward reduces the losses: a worker has
\* issued one reduction per group it ran, and two workers that issued the
\* reductions of all their groups of the same cycle issued as many.
C18_SameReductionsPerCycle ==
    EntersReduce(wCfg) =>
        /\ \A w \in Ranks(wCfg.world_size) :
              wPc[w] \in {"groups", "loop", "all_reduce", "done"} =>
                  wReduces[w] = wGroups[w] - wLeft[w]
        /\ \A v, w \in Ranks(wCfg.world_size) :
              (/\ wIdx[v] = wIdx[w]
               /\ wGroups[v] > 0 /\ wReduces[v] = wGroups[v]
               /\ wGroups[w] > 0 /\ wReduces[w] = wGroups[w])
              => wReduces[v] = wReduces[w]

====
